---- MODULE Spec2Model ----
(***************************************************************************)
(* Model of python-client/submit_example.py: the submission client         *)
(* (key loading, build_repro_package, sha256_file, sign_payload,           *)
(* submit_example) and of the verifier contract that is its dual.          *)
(*                                                                         *)
(* Text (JSON, keys, strings) is modelled at the level of characters: a    *)
(* text is a sequence of character codes, json.dumps and json.loads are    *)
(* operators that produce and consume such sequences.                      *)
(***************************************************************************)
EXTENDS Integers, Sequences, FiniteSets, TLC

-----------------------------------------------------------------------------
(* Characters of the JSON texts, as ASCII codes.                           *)
QUOTE == 34
BACKSLASH == 92
COMMA == 44
COLON == 58
SPACE == 32
DOT == 46
ZERO == 48
LBRACKET == 91
RBRACKET == 93
LBRACE == 123
RBRACE == 125

(* Literal texts. *)
TXT_true == <<116, 114, 117, 101>>
TXT_false == <<102, 97, 108, 115, 101>>
TXT_null == <<110, 117, 108, 108>>

-----------------------------------------------------------------------------
(* JSON-representable Python values.                                       *)
(*   int    n >= 0                                                         *)
(*   float  m / 10^e, the shortest decimal that repr() prints              *)
(*   str    a sequence of character codes                                  *)
(*   list   a sequence of values                                           *)
(*   dict   a sequence of members [k, v] in insertion order, keys distinct *)
JInt(n) == [t |-> "int", n |-> n]
JFloat(m, e) == [t |-> "float", m |-> m, e |-> e]
JStr(s) == [t |-> "str", s |-> s]
JList(xs) == [t |-> "list", items |-> xs]
JObj(ms) == [t |-> "obj", members |-> ms]
JTrue == [t |-> "true"]
JFalse == [t |-> "false"]
JNull == [t |-> "null"]
Member(k, v) == [k |-> k, v |-> v]

RECURSIVE Pow10(_)
Pow10(e) == IF e = 0 THEN 1 ELSE 10 * Pow10(e - 1)

(* str(int): the decimal digits of n, most significant first. *)
RECURSIVE Digits(_)
Digits(n) == IF n < 10 THEN <<ZERO + n>> ELSE Digits(n \div 10) \o <<ZERO + (n % 10)>>

(* The w low decimal digits of n, zero padded. *)
RECURSIVE PadDigits(_, _)
PadDigits(n, w) == IF w = 0 THEN <<>> ELSE PadDigits(n \div 10, w - 1) \o <<ZERO + (n % 10)>>

(* A float printed with one digit after the point ('%.1f', truncating). *)
FloatReprOneDigit(m, e) ==
    IF e = 0 THEN Digits(m) \o <<DOT, ZERO>>
    ELSE Digits(m \div Pow10(e)) \o <<DOT>> \o PadDigits((m % Pow10(e)) \div Pow10(e - 1), 1)

(* float.__repr__ in the fixed-notation range: integer part, '.', fraction; *)
(* a float with no fraction prints '.0'.                                    *)
FloatRepr(m, e) ==
    IF e = 0 THEN Digits(m) \o <<DOT, ZERO>>
    ELSE Digits(m \div Pow10(e)) \o <<DOT>> \o PadDigits(m % Pow10(e), e)

(* json.encoder's escaping of a string body: '"' and '\' get a backslash. *)
RECURSIVE Escape(_)
Escape(s) ==
    IF s = <<>> THEN <<>>
    ELSE IF Len(s) = 1
         THEN (IF s[1] \in {QUOTE, BACKSLASH} THEN <<BACKSLASH, s[1]>> ELSE s)
    ELSE Escape(SubSeq(s, 1, Len(s) \div 2)) \o Escape(SubSeq(s, Len(s) \div 2 + 1, Len(s)))

(* A string between quotes with no escaping. *)
QuotedRaw(s) == <<QUOTE>> \o s \o <<QUOTE>>

Quoted(s) == <<QUOTE>> \o Escape(s) \o <<QUOTE>>

(* Python's order on str: lexicographic by code point. *)
StrLess(a, b) ==
    LET n == IF Len(a) < Len(b) THEN Len(a) ELSE Len(b)
        D == {i \in 1..n : a[i] # b[i]}
    IN IF D = {} THEN Len(a) < Len(b)
       ELSE LET i == CHOOSE i \in D : \A j \in D : i <= j IN a[i] < b[i]

(* sorted(dct.items()): the members ordered by key (keys are distinct). *)
RECURSIVE InsertMember(_, _)
InsertMember(m, ms) ==
    IF ms = <<>> THEN <<m>>
    ELSE IF StrLess(m.k, Head(ms).k) THEN <<m>> \o ms
    ELSE <<Head(ms)>> \o InsertMember(m, Tail(ms))

RECURSIVE SortMembers(_)
SortMembers(ms) ==
    IF ms = <<>> THEN <<>> ELSE InsertMember(Head(ms), SortMembers(Tail(ms)))

(* json.dumps(v, sort_keys=sk, separators=(isep, ksep)). *)
RECURSIVE Dumps(_, _, _, _)
RECURSIVE DumpItems(_, _, _, _)
RECURSIVE DumpMembers(_, _, _, _)
Dumps(v, sk, isep, ksep) ==
    CASE v.t = "int" -> Digits(v.n)
      [] v.t = "float" -> FloatRepr(v.m, v.e)
      [] v.t = "str" -> Quoted(v.s)
      [] v.t = "true" -> TXT_true
      [] v.t = "false" -> TXT_false
      [] v.t = "null" -> TXT_null
      [] v.t = "list" -> <<LBRACKET>> \o DumpItems(v.items, sk, isep, ksep) \o <<RBRACKET>>
      [] v.t = "obj" ->
            <<LBRACE>>
            \o DumpMembers(IF sk THEN SortMembers(v.members) ELSE v.members, sk, isep, ksep)
            \o <<RBRACE>>

DumpItems(xs, sk, isep, ksep) ==
    IF xs = <<>> THEN <<>>
    ELSE Dumps(Head(xs), sk, isep, ksep)
         \o (IF Len(xs) > 1 THEN isep ELSE <<>>)
         \o DumpItems(Tail(xs), sk, isep, ksep)

DumpMembers(ms, sk, isep, ksep) ==
    IF ms = <<>> THEN <<>>
    ELSE Quoted(Head(ms).k) \o ksep \o Dumps(Head(ms).v, sk, isep, ksep)
         \o (IF Len(ms) > 1 THEN isep ELSE <<>>)
         \o DumpMembers(Tail(ms), sk, isep, ksep)

-----------------------------------------------------------------------------
(* json.loads: a recursive-descent parse of a text s from index i.  A parse *)
(* result is [ok, v, i]: the value and the index after it.                  *)
Fail == [ok |-> FALSE, v |-> JNull, i |-> 0]
Ok(v, i) == [ok |-> TRUE, v |-> v, i |-> i]

IsDigit(c) == c >= ZERO /\ c <= ZERO + 9

RECURSIVE SkipWs(_, _)
SkipWs(s, i) == IF i <= Len(s) /\ s[i] = SPACE THEN SkipWs(s, i + 1) ELSE i

(* The number of consecutive backslashes that end just before index j, *)
(* counted no further back than index i.                               *)
RECURSIVE RunBefore(_, _, _)
RunBefore(s, i, j) ==
    IF j > i /\ s[j - 1] = BACKSLASH THEN 1 + RunBefore(s, i, j - 1) ELSE 0

(* The body of a string from i (after the opening quote), unescaped: it *)
(* ends at the first quote that no backslash escapes; a backslash that  *)
(* is not itself escaped escapes the next character and is dropped.     *)
ScanString(s, i) ==
    LET Closing == {j \in i..Len(s) : s[j] = QUOTE /\ RunBefore(s, i, j) % 2 = 0} IN
    IF Closing = {} THEN Fail
    ELSE LET e == CHOOSE j \in Closing : \A k \in Closing : j <= k
             Kept(j) == ~(s[j] = BACKSLASH /\ RunBefore(s, i, j) % 2 = 0)
             idx == SelectSeq([j \in 1..(e - i) |-> i + j - 1], Kept)
         IN Ok([n \in 1..Len(idx) |-> s[idx[n]]], e + 1)

(* A run of digits from i: [n, w, i] its value, its width, the index after. *)
RECURSIVE ScanDigits(_, _, _, _)
ScanDigits(s, i, n, w) ==
    IF i <= Len(s) /\ IsDigit(s[i])
    THEN ScanDigits(s, i + 1, 10 * n + (s[i] - ZERO), w + 1)
    ELSE [n |-> n, w |-> w, i |-> i]

(* float(text): the value m / 10^e without trailing zeros of the fraction. *)
RECURSIVE NormFloat(_, _)
NormFloat(m, e) == IF e > 0 /\ m % 10 = 0 THEN NormFloat(m \div 10, e - 1) ELSE JFloat(m, e)

(* A number: an int when it has no fraction, a float otherwise. *)
ParseNumber(s, i) ==
    LET ip == ScanDigits(s, i, 0, 0) IN
    IF ip.w = 0 THEN Fail
    ELSE IF ip.i <= Len(s) /\ s[ip.i] = DOT
         THEN LET fp == ScanDigits(s, ip.i + 1, 0, 0) IN
              IF fp.w = 0 THEN Fail
              ELSE Ok(NormFloat(ip.n * Pow10(fp.w) + fp.n, fp.w), fp.i)
    ELSE Ok(JInt(ip.n), ip.i)

StartsWith(s, i, lit) ==
    /\ i + Len(lit) - 1 <= Len(s)
    /\ SubSeq(s, i, i + Len(lit) - 1) = lit

(* dict[k] = v: replaces the value of an existing key, else appends. *)
SetMember(ms, k, v) ==
    IF \E j \in 1..Len(ms) : ms[j].k = k
    THEN [j \in 1..Len(ms) |-> IF ms[j].k = k THEN Member(k, v) ELSE ms[j]]
    ELSE Append(ms, Member(k, v))

RECURSIVE ParseValue(_, _)
RECURSIVE ParseItems(_, _, _)
RECURSIVE ParseMembers(_, _, _)
ParseValue(s, i0) ==
    LET i == SkipWs(s, i0) IN
    IF i > Len(s) THEN Fail
    ELSE IF s[i] = QUOTE
         THEN LET r == ScanString(s, i + 1) IN
              IF r.ok THEN Ok(JStr(r.v), r.i) ELSE Fail
    ELSE IF IsDigit(s[i]) THEN ParseNumber(s, i)
    ELSE IF StartsWith(s, i, TXT_true) THEN Ok(JTrue, i + 4)
    ELSE IF StartsWith(s, i, TXT_false) THEN Ok(JFalse, i + 5)
    ELSE IF StartsWith(s, i, TXT_null) THEN Ok(JNull, i + 4)
    ELSE IF s[i] = LBRACKET
         THEN LET j == SkipWs(s, i + 1) IN
              IF j <= Len(s) /\ s[j] = RBRACKET THEN Ok(JList(<<>>), j + 1)
              ELSE ParseItems(s, j, <<>>)
    ELSE IF s[i] = LBRACE
         THEN LET j == SkipWs(s, i + 1) IN
              IF j <= Len(s) /\ s[j] = RBRACE THEN Ok(JObj(<<>>), j + 1)
              ELSE ParseMembers(s, j, <<>>)
    ELSE Fail

(* The items of a list from i, up to and including the closing bracket. *)
ParseItems(s, i, acc) ==
    LET r == ParseValue(s, i) IN
    IF ~r.ok THEN Fail
    ELSE LET j == SkipWs(s, r.i) IN
         IF j > Len(s) THEN Fail
         ELSE IF s[j] = COMMA THEN ParseItems(s, j + 1, Append(acc, r.v))
         ELSE IF s[j] = RBRACKET THEN Ok(JList(Append(acc, r.v)), j + 1)
         ELSE Fail

(* The members of an object from i, up to and including the closing brace. *)
ParseMembers(s, i0, acc) ==
    LET i == SkipWs(s, i0) IN
    IF i > Len(s) \/ s[i] # QUOTE THEN Fail
    ELSE LET k == ScanString(s, i + 1) IN
         IF ~k.ok THEN Fail
         ELSE LET c == SkipWs(s, k.i) IN
              IF c > Len(s) \/ s[c] # COLON THEN Fail
              ELSE LET r == ParseValue(s, c + 1) IN
                   IF ~r.ok THEN Fail
                   ELSE LET j == SkipWs(s, r.i) IN
                        IF j > Len(s) THEN Fail
                        ELSE IF s[j] = COMMA
                             THEN ParseMembers(s, j + 1, SetMember(acc, k.v, r.v))
                        ELSE IF s[j] = RBRACE
                             THEN Ok(JObj(SetMember(acc, k.v, r.v)), j + 1)
                        ELSE Fail

(* json.loads(text): the value, when the whole text is one value. *)
Loads(s) ==
    LET r == ParseValue(s, 1) IN
    IF r.ok /\ SkipWs(s, r.i) = Len(s) + 1 THEN r ELSE Fail

-----------------------------------------------------------------------------
(* Bytes and hex.                                                          *)
Min(a, b) == IF a < b THEN a ELSE b

HexChar(d) == IF d < 10 THEN ZERO + d ELSE 97 + (d - 10)

(* bytes.hex(): two lowercase hex characters per byte. *)
HexEncode(bs) ==
    [i \in 1..(2 * Len(bs)) |->
        IF i % 2 = 1 THEN HexChar(bs[(i + 1) \div 2] \div 16) ELSE HexChar(bs[i \div 2] % 16)]

(* The value of a hex character ('0'-'9', 'a'-'f', 'A'-'F'), or -1. *)
HexVal(c) ==
    IF c >= ZERO /\ c <= ZERO + 9 THEN c - ZERO
    ELSE IF c >= 97 /\ c <= 102 THEN c - 97 + 10
    ELSE IF c >= 65 /\ c <= 70 THEN c - 65 + 10
    ELSE -1

(* A decoder that takes an odd length: the last character is left out. *)
HexDecodeLenient(s) ==
    IF \A i \in 1..Len(s) : HexVal(s[i]) >= 0
    THEN [ok |-> TRUE,
          v |-> [i \in 1..(Len(s) \div 2) |-> 16 * HexVal(s[2 * i - 1]) + HexVal(s[2 * i])]]
    ELSE [ok |-> FALSE, v |-> <<>>]

(* HexEncoder.decode (binascii.unhexlify): [ok, v]; an odd length or a     *)
(* character that is no hex digit is an error.                             *)
HexDecode(s) ==
    IF Len(s) % 2 = 0 /\ \A i \in 1..Len(s) : HexVal(s[i]) >= 0
    THEN [ok |-> TRUE,
          v |-> [i \in 1..(Len(s) \div 2) |-> 16 * HexVal(s[2 * i - 1]) + HexVal(s[2 * i])]]
    ELSE [ok |-> FALSE, v |-> <<>>]

IsSpace(c) == c \in {SPACE, 9, 10, 13}

(* str.strip(): without the leading and trailing whitespace. *)
RECURSIVE Strip(_)
Strip(s) ==
    IF s = <<>> THEN s
    ELSE IF IsSpace(s[1]) THEN Strip(Tail(s))
    ELSE IF IsSpace(s[Len(s)]) THEN Strip(SubSeq(s, 1, Len(s) - 1))
    ELSE s

(* hashlib.sha256: the state of a hasher is the bytes fed to it so far;    *)
(* collision resistance is modelled as injectivity, the hex digest of a    *)
(* byte stream is a hex text that determines the stream.                   *)
HexDigest(fed) == HexEncode(fed)

-----------------------------------------------------------------------------
(* Ed25519 (PyNaCl), idealised: a public key is a term over the seed, a     *)
(* signature is a term over the public key of the signer and the message;  *)
(* flip is the index of a flipped bit of the signature bytes (0: none).    *)
SEED_BYTES == 32
SIG_BITS == 512
NoKey == [ok |-> FALSE, seed |-> <<>>]
PublicOf(seed) == [pub |-> seed]
NoSig == [by |-> PublicOf(<<>>), over |-> <<>>, flip |-> 0, hex |-> FALSE]

(* SigningKey without the check of the seed length. *)
SigningKeyAnyLength(text) ==
    LET d == HexDecode(text) IN
    IF d.ok THEN [ok |-> TRUE, seed |-> d.v] ELSE [ok |-> FALSE, seed |-> <<>>]

(* SigningKey(seed_hex, encoder=HexEncoder): the key, or an error when the *)
(* text is no hex or the seed is not SEED_BYTES long.                      *)
SigningKey(text) ==
    LET d == HexDecode(text) IN
    IF d.ok /\ Len(d.v) = SEED_BYTES THEN [ok |-> TRUE, seed |-> d.v] ELSE NoKey

(* sk.sign(msg).signature *)
Sign(key, msg) == [by |-> PublicOf(key.seed), over |-> msg, flip |-> 0, hex |-> FALSE]

(* sig.hex() and its inverse *)
SigHex(sig) == [sig EXCEPT !.hex = TRUE]
SigUnhex(sigtext) == [sigtext EXCEPT !.hex = FALSE]

(* verify_key.verify(msg, signature), idealised: the signature is intact, *)
(* was made by the key pair of pub, over msg.                             *)
Verify(sig, msg, pub) == sig.flip = 0 /\ sig.by = pub /\ sig.over = msg

(* The serialization without sort_keys. *)
CanonUnsorted(payload) == Dumps(payload, FALSE, <<COMMA>>, <<COLON>>)

(* canonical bytes of a claim: json.dumps(payload, sort_keys=True,         *)
(* separators=(',', ':')).encode()                                         *)
Canon(payload) == Dumps(payload, TRUE, <<COMMA>>, <<COLON>>)

sign_payload(key, payload) == SigHex(Sign(key, Canon(payload)))

(* json.dumps(v) / json.dump(v, fh) with the default separators *)
DumpsDefault(v) == Dumps(v, FALSE, <<COMMA, SPACE>>, <<COLON, SPACE>>)

-----------------------------------------------------------------------------
(* The client: NumRuns processes run the script in the same working        *)
(* directory; they share the files the script names by fixed paths.        *)
NumRuns == 2
MaxClock == 0
MaxNonce == 1
Runs == 1..NumRuns
Times == 0..MaxClock
Nonces == 0..MaxNonce

CHUNK == 8192
MINER_ID == 1

S_task_id == <<116, 97, 115, 107, 95, 105, 100>>
S_miner_id == <<109, 105, 110, 101, 114, 95, 105, 100>>
S_performance == <<112, 101, 114, 102, 111, 114, 109, 97, 110, 99, 101>>
S_artifact_hash == <<97, 114, 116, 105, 102, 97, 99, 116, 95, 104, 97, 115, 104>>
S_hyperparameters == <<104, 121, 112, 101, 114, 112, 97, 114, 97, 109, 101, 116, 101, 114, 115>>
S_timestamp == <<116, 105, 109, 101, 115, 116, 97, 109, 112>>
S_nonce == <<110, 111, 110, 99, 101>>
S_layers == <<108, 97, 121, 101, 114, 115>>
S_activation == <<97, 99, 116, 105, 118, 97, 116, 105, 111, 110>>
S_lr == <<108, 114>>
S_relu == <<114, 101, 108, 117>>
S_task_prod_001 == <<116, 97, 115, 107, 45, 112, 114, 111, 100, 45, 48, 48, 49>>

(* hyper = {"layers":[128,64], "activation":"relu", "lr":0.001} *)
hyper ==
    JObj(<<Member(S_layers, JList(<<JInt(128), JInt(64)>>)),
           Member(S_activation, JStr(S_relu)),
           Member(S_lr, JFloat(1, 3))>>)

(* The payload built before the artifact is hashed: the hash is empty. *)
MakePayloadBeforeHash(hash, hp, ts, nonce) ==
    JObj(<<Member(S_task_id, JStr(S_task_prod_001)),
           Member(S_miner_id, JInt(MINER_ID)),
           Member(S_performance, JFloat(92, 2)),
           Member(S_artifact_hash, JStr(<<>>)),
           Member(S_hyperparameters, hp),
           Member(S_timestamp, JInt(ts)),
           Member(S_nonce, JInt(nonce))>>)

(* The payload of submit_example, in the insertion order of the literal. *)
MakePayload(hash, hp, ts, nonce) ==
    JObj(<<Member(S_task_id, JStr(S_task_prod_001)),
           Member(S_miner_id, JInt(MINER_ID)),
           Member(S_performance, JFloat(92, 2)),
           Member(S_artifact_hash, JStr(hash)),
           Member(S_hyperparameters, hp),
           Member(S_timestamp, JInt(ts)),
           Member(S_nonce, JInt(nonce))>>)

(* The value of key k of a dict. *)
Get(obj, k) == LET j == CHOOSE j \in 1..Len(obj.members) : obj.members[j].k = k
               IN obj.members[j].v
Has(obj, k) == obj.t = "obj" /\ \E j \in 1..Len(obj.members) : obj.members[j].k = k

(* The payload part built from a payload whose timestamp was read again. *)
WirePayloadRestamped(payload) ==
    DumpsDefault([payload EXCEPT !.members =
        [j \in 1..Len(@) |-> IF @[j].k = S_timestamp
                             THEN Member(@[j].k, JInt(@[j].v.n + 1)) ELSE @[j]]])

(* "payload": (None, json.dumps(payload)) *)
WirePayload(payload) == DumpsDefault(payload)

(* Files.  A file is [exists, data]; data is its bytes. *)
NoFile == [exists |-> FALSE, data |-> <<>>]
File(data) == [exists |-> TRUE, data |-> data]

(* A write of chunk at byte offset off: overwrites, extends, and fills a   *)
(* gap past the end of the file with zero bytes.                           *)
WriteAt(data, off, chunk) ==
    LET padded == IF Len(data) < off
                  THEN data \o [i \in 1..(off - Len(data)) |-> 0]
                  ELSE data
    IN SubSeq(padded, 1, off) \o chunk \o SubSeq(padded, off + Len(chunk) + 1, Len(padded))

(* The content of python-client/train.py, and of the key files. *)
TRAIN_PY == <<105, 109, 112>>

Rep(s, n) == [i \in 1..(n * Len(s)) |-> s[((i - 1) % Len(s)) + 1]]

KeyText1 == Rep(<<48, 49>>, 32) \o <<10>>
KeyText2 == Rep(<<48, 50>>, 32) \o <<10>>

(* The key file as it may be found: absent, a key, a key one byte short,  *)
(* an odd number of hex characters, a character that is no hex digit,     *)
(* empty.                                                                  *)
KeyFiles ==
    {NoFile,
     File(KeyText1),
     File(Rep(<<48, 49>>, 31) \o <<10>>),
     File(Rep(<<48, 49>>, 32) \o <<48, 10>>),
     File(Rep(<<122, 49>>, 32) \o <<10>>),
     File(<<>>)}

(* The archive: a member is a name tag, the length of its data, its data;  *)
(* the central directory written on close lists the members written        *)
(* through that ZipFile object.                                            *)
NameTag(name) == IF name = "hyperparameters.json" THEN 1 ELSE 2
EntryBytes(name, data) == <<NameTag(name), Len(data)>> \o data
CDirBytes(names) == <<255, Len(names)>> \o [i \in 1..Len(names) |-> NameTag(names[i])]

VARIABLES
    keyFile,    \* python-client/miner1_sk.hex
    hpFile,     \* pkgtmp/hyperparameters.json
    trainFile,  \* pkgtmp/train.py
    zipFile,    \* repro.zip
    pc,         \* per run: the step it is at
    sk,         \* per run: the module-level signing key
    out,        \* per run: what it printed
    err,        \* per run: the exception that ended it ("" when none)
    zh,         \* per run: the ZipFile object and the loop over listdir
    hh,         \* per run: the sha256 object and the read offset
    art_hash,   \* per run: art_hash
    payload,    \* per run: payload
    signature,  \* per run: signature
    files,      \* per run: files
    cpStatus,   \* per run: the exit status os.system returned (-1: not called)
    sent,       \* the requests posted to SERVER + "/submit"
    overlap,    \* whether the runs may overlap in time
    shortReads  \* whether fh.read may return less than asked before the end

clientVars ==
    <<keyFile, hpFile, trainFile, zipFile, pc, sk, out, err, zh, hh, art_hash,
      payload, signature, files, cpStatus, sent, overlap, shortReads>>

(* The canonicalization and the signature taken alone. *)
VARIABLES
    claimA,     \* the claim that is signed
    claimB,     \* the claim the signature is verified against
    rel,        \* how B was derived from A: "same", "reordered", "altered"
    msgA,       \* the canonical bytes of A, as signed
    msgB,       \* the canonical bytes of B, as verified
    keyA,       \* the key that signed
    keyB,       \* the public key used to verify
    sigC,       \* the signature text, possibly with a flipped bit
    verdict,    \* the result of the verification
    phase       \* "input", "derived", "signed", "verified"; "off" outside SpecCanon

canonVars == <<claimA, claimB, rel, msgA, msgB, keyA, keyB, sigC, verdict, phase>>

(* The verifier. *)
VARIABLES
    inbox,      \* the submissions on their way to the verifier
    vnow,       \* the verifier's wall clock
    seen,       \* the (submitter identifier, nonce) pairs recorded
    vw,         \* per worker: its step, its submission, what it found
    accepted    \* per pair: how many submissions with it were ACCEPTED

verifierVars == <<inbox, vnow, seen, vw, accepted>>

(* What no step of the client, of the canonicalization, of the verifier    *)
(* changes.                                                                *)
clientFrame == <<overlap, shortReads, canonVars, verifierVars>>
canonFrame == <<clientVars, verifierVars>>
verifierFrame == <<clientVars, canonVars>>

NoZip == [pos |-> 0, names |-> <<>>, todo |-> <<>>]
NoHash == [off |-> 0, fed |-> <<>>]
NoFiles == [payload |-> <<>>, signature |-> NoSig, artifact |-> FALSE]

InitClient ==
    /\ keyFile \in KeyFiles
    /\ hpFile = NoFile
    /\ trainFile = NoFile
    /\ zipFile = NoFile
    /\ pc = [r \in Runs |-> "load_key"]
    /\ sk = [r \in Runs |-> NoKey]
    /\ out = [r \in Runs |-> <<>>]
    /\ err = [r \in Runs |-> ""]
    /\ zh = [r \in Runs |-> NoZip]
    /\ hh = [r \in Runs |-> NoHash]
    /\ art_hash = [r \in Runs |-> <<>>]
    /\ payload = [r \in Runs |-> JNull]
    /\ signature = [r \in Runs |-> NoSig]
    /\ files = [r \in Runs |-> NoFiles]
    /\ cpStatus = [r \in Runs |-> -1]
    /\ sent = {}

Finished(r) == pc[r] \in {"done", "aborted"}

(* Run r may take a step: always when the runs may overlap, else when the  *)
(* runs started before it have ended.                                      *)
Turn(r) == overlap \/ \A q \in 1..(r - 1) : Finished(q)

(* An uncaught exception ends the process. *)
Raise(r, e) ==
    /\ pc' = [pc EXCEPT ![r] = "aborted"]
    /\ err' = [err EXCEPT ![r] = e]

Goto(r, l) ==
    /\ pc' = [pc EXCEPT ![r] = l]
    /\ UNCHANGED err

(* The load of the key with the signing key printed in place of the      *)
(* public key.                                                             *)
LoadKeyPrintsSecret(r) ==
    /\ pc[r] = "load_key"
    /\ Turn(r)
    /\ \/ /\ ~keyFile.exists
          /\ Raise(r, "FileNotFoundError")
          /\ UNCHANGED <<sk, out>>
       \/ /\ keyFile.exists
          /\ ~SigningKey(Strip(keyFile.data)).ok
          /\ Raise(r, "ValueError")
          /\ UNCHANGED <<sk, out>>
       \/ /\ keyFile.exists
          /\ SigningKey(Strip(keyFile.data)).ok
          /\ sk' = [sk EXCEPT ![r] = SigningKey(Strip(keyFile.data))]
          /\ out' = [out EXCEPT ![r] = Append(@, [what |-> "public key:", pub |-> sk'[r]])]
          /\ Goto(r, "open_hp")
    /\ UNCHANGED <<keyFile, hpFile, trainFile, zipFile, zh, hh, art_hash, payload,
                   signature, files, cpStatus, sent>>
    /\ UNCHANGED clientFrame

(* Lines 10-13: read the key file, build the key, print the public key. *)
LoadKey(r) ==
    /\ pc[r] = "load_key"
    /\ Turn(r)
    /\ \/ /\ ~keyFile.exists
          /\ Raise(r, "FileNotFoundError")
          /\ UNCHANGED <<sk, out>>
       \/ /\ keyFile.exists
          /\ ~SigningKey(Strip(keyFile.data)).ok
          /\ Raise(r, "ValueError")
          /\ UNCHANGED <<sk, out>>
       \/ /\ keyFile.exists
          /\ SigningKey(Strip(keyFile.data)).ok
          /\ sk' = [sk EXCEPT ![r] = SigningKey(Strip(keyFile.data))]
          /\ out' = [out EXCEPT ![r] =
                Append(@, [what |-> "public key:", pub |-> PublicOf(sk'[r].seed)])]
          /\ Goto(r, "open_hp")
    /\ UNCHANGED <<keyFile, hpFile, trainFile, zipFile, zh, hh, art_hash, payload,
                   signature, files, cpStatus, sent>>
    /\ UNCHANGED clientFrame

(* Lines 19-20: makedirs, then open(.., "w") truncates the file. *)
OpenHp(r) ==
    /\ pc[r] = "open_hp"
    /\ Turn(r)
    /\ \/ /\ hpFile' = File(<<>>)
          /\ Goto(r, "dump_hp")
       \/ /\ Raise(r, "OSError")
          /\ UNCHANGED hpFile
    /\ UNCHANGED <<keyFile, trainFile, zipFile, sk, out, zh, hh, art_hash, payload,
                   signature, files, cpStatus, sent>>
    /\ UNCHANGED clientFrame

(* Line 21 and the end of the with block: the text is written from offset 0. *)
DumpHp(r) ==
    /\ pc[r] = "dump_hp"
    /\ Turn(r)
    /\ hpFile' = File(WriteAt(hpFile.data, 0, DumpsDefault(hyper)))
    /\ Goto(r, "cp_train")
    /\ UNCHANGED <<keyFile, trainFile, zipFile, sk, out, zh, hh, art_hash, payload,
                   signature, files, cpStatus, sent>>
    /\ UNCHANGED clientFrame

(* Line 23: os.system runs cp; its exit status is not looked at. *)
CpTrain(r) ==
    /\ pc[r] = "cp_train"
    /\ Turn(r)
    /\ \/ /\ trainFile' = File(TRAIN_PY)
          /\ cpStatus' = [cpStatus EXCEPT ![r] = 0]
       \/ /\ UNCHANGED trainFile
          /\ cpStatus' = [cpStatus EXCEPT ![r] = 256]
    /\ Goto(r, "open_zip")
    /\ UNCHANGED <<keyFile, hpFile, zipFile, sk, out, zh, hh, art_hash, payload,
                   signature, files, sent>>
    /\ UNCHANGED clientFrame

(* Line 24: ZipFile(out_path, "w") truncates the archive. *)
OpenZip(r) ==
    /\ pc[r] = "open_zip"
    /\ Turn(r)
    /\ \/ /\ zipFile' = File(<<>>)
          /\ zh' = [zh EXCEPT ![r] = NoZip]
          /\ Goto(r, "listdir")
       \/ /\ Raise(r, "OSError")
          /\ UNCHANGED <<zipFile, zh>>
    /\ UNCHANGED <<keyFile, hpFile, trainFile, sk, out, hh, art_hash, payload,
                   signature, files, cpStatus, sent>>
    /\ UNCHANGED clientFrame

(* The names in pkgtmp.  The order os.listdir gives is fixed by the file   *)
(* system for a given directory; the model takes the order of creation.    *)
DirListing ==
    (IF hpFile.exists THEN <<"hyperparameters.json">> ELSE <<>>)
    \o (IF trainFile.exists THEN <<"train.py">> ELSE <<>>)

(* Line 25: os.listdir(tmpdir) *)
ListDir(r) ==
    /\ pc[r] = "listdir"
    /\ Turn(r)
    /\ zh' = [zh EXCEPT ![r].todo = DirListing]
    /\ Goto(r, "zip_loop")
    /\ UNCHANGED <<keyFile, hpFile, trainFile, zipFile, sk, out, hh, art_hash, payload,
                   signature, files, cpStatus, sent>>
    /\ UNCHANGED clientFrame

PkgFile(name) == IF name = "hyperparameters.json" THEN hpFile ELSE trainFile

(* Line 26: zipf.write reads the file as it is now and writes the member   *)
(* at the offset of this ZipFile object.                                   *)
ZipWrite(r) ==
    /\ pc[r] = "zip_loop"
    /\ Turn(r)
    /\ zh[r].todo # <<>>
    /\ LET name == Head(zh[r].todo)
           bytes == EntryBytes(name, PkgFile(name).data)
       IN /\ zipFile' = File(WriteAt(zipFile.data, zh[r].pos, bytes))
          /\ zh' = [zh EXCEPT ![r] = [pos |-> @.pos + Len(bytes),
                                      names |-> Append(@.names, name),
                                      todo |-> Tail(@.todo)]]
    /\ Goto(r, "zip_loop")
    /\ UNCHANGED <<keyFile, hpFile, trainFile, sk, out, hh, art_hash, payload,
                   signature, files, cpStatus, sent>>
    /\ UNCHANGED clientFrame

(* Line 27: zipf.close() writes the central directory. *)
ZipClose(r) ==
    /\ pc[r] = "zip_loop"
    /\ Turn(r)
    /\ zh[r].todo = <<>>
    /\ zipFile' = File(WriteAt(zipFile.data, zh[r].pos, CDirBytes(zh[r].names)))
    /\ Goto(r, "hash_open")
    /\ UNCHANGED <<keyFile, hpFile, trainFile, sk, out, zh, hh, art_hash, payload,
                   signature, files, cpStatus, sent>>
    /\ UNCHANGED clientFrame

(* Lines 30-31: a new hasher, and open(path, "rb"). *)
HashOpen(r) ==
    /\ pc[r] = "hash_open"
    /\ Turn(r)
    /\ \/ /\ zipFile.exists
          /\ hh' = [hh EXCEPT ![r] = NoHash]
          /\ Goto(r, "hash_read")
       \/ /\ Raise(r, "OSError")
          /\ UNCHANGED hh
    /\ UNCHANGED <<keyFile, hpFile, trainFile, zipFile, sk, out, zh, art_hash, payload,
                   signature, files, cpStatus, sent>>
    /\ UNCHANGED clientFrame

(* The loop of sha256_file ended by the first chunk shorter than 8192     *)
(* bytes instead of by the empty chunk.                                    *)
HashReadUntilShort(r) ==
    /\ pc[r] = "hash_read"
    /\ Turn(r)
    /\ LET full == Min(CHUNK, Len(zipFile.data) - hh[r].off)
       IN \/ \E n \in (IF full <= 0 THEN {0} ELSE IF shortReads THEN 1..full ELSE {full}) :
                LET fed == hh[r].fed \o SubSeq(zipFile.data, hh[r].off + 1, hh[r].off + n)
                IN /\ hh' = [hh EXCEPT ![r] = [off |-> @.off + n, fed |-> fed]]
                   /\ IF n = CHUNK
                      THEN Goto(r, "hash_read") /\ UNCHANGED art_hash
                      ELSE /\ art_hash' = [art_hash EXCEPT ![r] = HexDigest(fed)]
                           /\ Goto(r, "build_payload")
          \/ /\ Raise(r, "OSError")
             /\ UNCHANGED <<hh, art_hash>>
    /\ UNCHANGED <<keyFile, hpFile, trainFile, zipFile, sk, out, zh, payload,
                   signature, files, cpStatus, sent>>
    /\ UNCHANGED clientFrame

(* Lines 32-36: one fh.read(8192). Before the end of the file it returns   *)
(* 8192 bytes or what is left, or any smaller non-empty chunk when the     *)
(* stream reads short; at the end it returns the empty chunk, which ends   *)
(* the loop; a read that fails raises OSError.                             *)
HashRead(r) ==
    /\ pc[r] = "hash_read"
    /\ Turn(r)
    /\ LET full == Min(CHUNK, Len(zipFile.data) - hh[r].off)
       IN \/ \E n \in (IF shortReads THEN 1..full ELSE {full}) :
                /\ n > 0
                /\ hh' = [hh EXCEPT ![r] =
                             [off |-> @.off + n,
                              fed |-> @.fed \o SubSeq(zipFile.data, @.off + 1, @.off + n)]]
                /\ Goto(r, "hash_read")
                /\ UNCHANGED art_hash
          \/ /\ full <= 0
             /\ art_hash' = [art_hash EXCEPT ![r] = HexDigest(hh[r].fed)]
             /\ Goto(r, "build_payload")
             /\ UNCHANGED hh
          \/ /\ Raise(r, "OSError")
             /\ UNCHANGED <<hh, art_hash>>
    /\ UNCHANGED <<keyFile, hpFile, trainFile, zipFile, sk, out, zh, payload,
                   signature, files, cpStatus, sent>>
    /\ UNCHANGED clientFrame

(* Lines 49-57: the claim, with the clock and os.urandom read now. *)
BuildPayload(r) ==
    /\ pc[r] = "build_payload"
    /\ Turn(r)
    /\ \E ts \in Times, n \in Nonces :
          payload' = [payload EXCEPT ![r] = MakePayload(art_hash[r], hyper, ts, n)]
    /\ Goto(r, "sign")
    /\ UNCHANGED <<keyFile, hpFile, trainFile, zipFile, sk, out, zh, hh, art_hash,
                   signature, files, cpStatus, sent>>
    /\ UNCHANGED clientFrame

(* The signing step with a key pair made anew in place of the one loaded. *)
SignPayloadFreshKey(r) ==
    /\ pc[r] = "sign"
    /\ Turn(r)
    /\ sk' = [sk EXCEPT ![r].seed = [i \in 1..Len(@) |-> 255 - @[i]]]
    /\ signature' = [signature EXCEPT ![r] = sign_payload(sk'[r], payload[r])]
    /\ Goto(r, "assemble")
    /\ UNCHANGED <<keyFile, hpFile, trainFile, zipFile, out, zh, hh, art_hash,
                   payload, files, cpStatus, sent>>
    /\ UNCHANGED clientFrame

(* Line 58 *)
SignPayload(r) ==
    /\ pc[r] = "sign"
    /\ Turn(r)
    /\ signature' = [signature EXCEPT ![r] = sign_payload(sk[r], payload[r])]
    /\ Goto(r, "assemble")
    /\ UNCHANGED <<keyFile, hpFile, trainFile, zipFile, sk, out, zh, hh, art_hash,
                   payload, files, cpStatus, sent>>
    /\ UNCHANGED clientFrame

(* Lines 60-64: the three parts; the artifact is opened, not yet read. *)
Assemble(r) ==
    /\ pc[r] = "assemble"
    /\ Turn(r)
    /\ \/ /\ zipFile.exists
          /\ files' = [files EXCEPT ![r] = [payload |-> WirePayload(payload[r]),
                                            signature |-> signature[r],
                                            artifact |-> TRUE]]
          /\ Goto(r, "post")
       \/ /\ Raise(r, "OSError")
          /\ UNCHANGED files
    /\ UNCHANGED <<keyFile, hpFile, trainFile, zipFile, sk, out, zh, hh, art_hash,
                   payload, signature, cpStatus, sent>>
    /\ UNCHANGED clientFrame

(* A send in two requests: the payload and the signature, then the        *)
(* artifact.                                                               *)
PostInTwoRequests(r) ==
    /\ pc[r] = "post"
    /\ Turn(r)
    /\ sent' = sent \cup {[run |-> r,
                           payload |-> files[r].payload,
                           signature |-> files[r].signature],
                          [run |-> r, artifact |-> zipFile.data]}
    /\ out' = [out EXCEPT ![r] = Append(@, [what |-> "response", pub |-> PublicOf(<<>>)])]
    /\ Goto(r, "done")
    /\ UNCHANGED <<keyFile, hpFile, trainFile, zipFile, sk, zh, hh, art_hash,
                   payload, signature, files, cpStatus>>
    /\ UNCHANGED clientFrame

(* Lines 65-66: requests.post reads the open artifact and sends the three *)
(* parts in one request; the response is printed.                         *)
Post(r) ==
    /\ pc[r] = "post"
    /\ Turn(r)
    /\ sent' = sent \cup {[run |-> r,
                           payload |-> files[r].payload,
                           signature |-> files[r].signature,
                           artifact |-> zipFile.data]}
    /\ out' = [out EXCEPT ![r] = Append(@, [what |-> "response", pub |-> PublicOf(<<>>)])]
    /\ Goto(r, "done")
    /\ UNCHANGED <<keyFile, hpFile, trainFile, zipFile, sk, zh, hh, art_hash,
                   payload, signature, files, cpStatus>>
    /\ UNCHANGED clientFrame

-----------------------------------------------------------------------------
(* The canonicalization and the signature as functions: a claim A, a      *)
(* second claim B derived from it, a signature of A, its verification     *)
(* against B.                                                              *)
S_t1 == <<116, 49>>
S_a == <<97>>
S_b == <<98>>
S_opt == <<111, 112, 116>>
(* 1","b":"2  -- a value that spells the end of a member and a next one *)
S_tricky == <<49, QUOTE, COMMA, QUOTE, 98, QUOTE, COLON, QUOTE, 50>>
S_1 == <<49>>
S_2 == <<50>>
S_relu_sp == <<114, 101, 108, 117, SPACE>>

Hash1 == HexDigest(<<1>>)
Hash2 == HexDigest(<<2>>)

(* The hyperparameter mappings the inputs are drawn from. *)
HyperSpace ==
    {hyper,
     JObj(<<>>),
     JObj(<<Member(S_a, JStr(S_1)), Member(S_b, JStr(S_2))>>),
     JObj(<<Member(S_a, JStr(S_tricky))>>),
     JObj(<<Member(S_lr, JInt(1))>>),
     JObj(<<Member(S_lr, JFloat(1, 0))>>),
     JObj(<<Member(S_layers, JList(<<JInt(64), JInt(128)>>)),
            Member(S_activation, JStr(S_relu_sp)),
            Member(S_lr, JFloat(1, 3))>>),
     JObj(<<Member(S_opt, JObj(<<Member(S_b, JInt(1)), Member(S_a, JTrue)>>)),
            Member(S_lr, JFloat(1, 3))>>),
     JObj(<<Member(S_opt, JObj(<<Member(S_b, JInt(1)), Member(S_a, JNull)>>)),
            Member(S_lr, JFloat(1, 3))>>)}

(* The values a field may be altered to. *)
Alternatives(k) ==
    CASE k = S_task_id -> {JStr(S_task_prod_001), JStr(S_t1)}
      [] k = S_miner_id -> {JInt(1), JInt(2), JStr(S_1)}
      [] k = S_performance -> {JFloat(92, 2), JFloat(95, 2), JFloat(9, 1), JFloat(1, 0), JInt(1)}
      [] k = S_artifact_hash -> {JStr(Hash1), JStr(Hash2)}
      [] k = S_hyperparameters -> HyperSpace
      [] k = S_timestamp -> {JInt(0), JInt(1), JInt(10)}
      [] k = S_nonce -> {JInt(0), JInt(1), JInt(2147483647)}

ClaimKeys ==
    {S_task_id, S_miner_id, S_performance, S_artifact_hash, S_hyperparameters,
     S_timestamp, S_nonce}

(* The claims the inputs are drawn from. *)
ClaimSpace ==
    {[MakePayload(Hash1, hp, 0, n) EXCEPT !.members[3] = Member(S_performance, pf)] :
        hp \in HyperSpace, pf \in {JFloat(92, 2), JFloat(1, 0)}, n \in {0, 2147483647}}

KeySeeds == {SigningKey(Strip(KeyText1)).seed, SigningKey(Strip(KeyText2)).seed}

Reverse(xs) == [i \in 1..Len(xs) |-> xs[Len(xs) + 1 - i]]
Rotate(xs) == IF xs = <<>> THEN xs ELSE Tail(xs) \o <<Head(xs)>>

(* The same value with the members of every mapping in it reversed. *)
RECURSIVE ReverseDeep(_)
ReverseDeep(v) ==
    IF v.t = "obj"
    THEN JObj(Reverse([j \in 1..Len(v.members) |->
                          Member(v.members[j].k, ReverseDeep(v.members[j].v))]))
    ELSE IF v.t = "list" THEN JList([j \in 1..Len(v.items) |-> ReverseDeep(v.items[j])])
    ELSE v

(* The same claim with only the nested mappings reordered. *)
ReverseNested(v) ==
    JObj([j \in 1..Len(v.members) |-> Member(v.members[j].k, ReverseDeep(v.members[j].v))])

(* The same mappings built in another key insertion order. *)
Reorderings(v) ==
    {JObj(Reverse(v.members)), JObj(Rotate(v.members)), ReverseDeep(v), ReverseNested(v)}

(* The claim with field k set to value x. *)
WithField(v, k, x) ==
    JObj([j \in 1..Len(v.members) |->
            IF v.members[j].k = k THEN Member(k, x) ELSE v.members[j]])

(* Equality of values as Python compares them, except that an int and a   *)
(* float are told apart: mappings are equal when they have the same keys  *)
(* with equal values, in whatever order.                                   *)
RECURSIVE SameValue(_, _)
SameValue(a, b) ==
    IF a.t # b.t THEN FALSE
    ELSE IF a.t = "obj"
         THEN /\ Len(a.members) = Len(b.members)
              /\ \A i \in 1..Len(a.members) :
                    \E j \in 1..Len(b.members) :
                        /\ a.members[i].k = b.members[j].k
                        /\ SameValue(a.members[i].v, b.members[j].v)
    ELSE IF a.t = "list"
         THEN /\ Len(a.items) = Len(b.items)
              /\ \A i \in 1..Len(a.items) : SameValue(a.items[i], b.items[i])
    ELSE a = b

InitCanonOff ==
    /\ claimA = JNull
    /\ claimB = JNull
    /\ rel = ""
    /\ msgA = <<>>
    /\ msgB = <<>>
    /\ keyA = NoKey
    /\ keyB = PublicOf(<<>>)
    /\ sigC = NoSig
    /\ verdict = FALSE
    /\ phase = "off"

InitCanon ==
    /\ claimA \in ClaimSpace
    /\ claimB = JNull
    /\ rel = ""
    /\ msgA = <<>>
    /\ msgB = <<>>
    /\ keyA = NoKey
    /\ keyB = PublicOf(<<>>)
    /\ sigC = NoSig
    /\ verdict = FALSE
    /\ phase = "input"

(* B is a second claim with the same field values in the same order. *)
Keep ==
    /\ phase = "input"
    /\ claimB' = claimA
    /\ rel' = "same"
    /\ phase' = "derived"
    /\ UNCHANGED <<claimA, msgA, msgB, keyA, keyB, sigC, verdict>>
    /\ UNCHANGED canonFrame

(* B is A built in another key insertion order. *)
Reorder ==
    /\ phase = "input"
    /\ \E b \in Reorderings(claimA) : claimB' = b
    /\ rel' = "reordered"
    /\ phase' = "derived"
    /\ UNCHANGED <<claimA, msgA, msgB, keyA, keyB, sigC, verdict>>
    /\ UNCHANGED canonFrame

(* B is A with one field altered. *)
Alter ==
    /\ phase = "input"
    /\ \E k \in ClaimKeys :
          \E x \in Alternatives(k) :
              /\ ~SameValue(x, Get(claimA, k))
              /\ claimB' = WithField(claimA, k, x)
    /\ rel' = "altered"
    /\ phase' = "derived"
    /\ UNCHANGED <<claimA, msgA, msgB, keyA, keyB, sigC, verdict>>
    /\ UNCHANGED canonFrame

(* sign_payload(sk, A) *)
SignA ==
    /\ phase = "derived"
    /\ \E seed \in KeySeeds : keyA' = [ok |-> TRUE, seed |-> seed]
    /\ msgA' = Canon(claimA)
    /\ sigC' = sign_payload(keyA', claimA)
    /\ phase' = "signed"
    /\ UNCHANGED <<claimA, claimB, rel, msgB, keyB, verdict>>
    /\ UNCHANGED canonFrame

(* One bit of the signature is flipped. *)
FlipBit ==
    /\ phase = "signed"
    /\ sigC.flip = 0
    /\ \E i \in {1, SIG_BITS} : sigC' = [sigC EXCEPT !.flip = i]
    /\ UNCHANGED <<claimA, claimB, rel, msgA, msgB, keyA, keyB, verdict, phase>>
    /\ UNCHANGED canonFrame

(* verify(signature, canon(B), pk) *)
VerifyB ==
    /\ phase = "signed"
    /\ \E seed \in KeySeeds : keyB' = PublicOf(seed)
    /\ msgB' = Canon(claimB)
    /\ verdict' = Verify(SigUnhex(sigC), msgB', keyB')
    /\ phase' = "verified"
    /\ UNCHANGED <<claimA, claimB, rel, msgA, keyA, sigC>>
    /\ UNCHANGED canonFrame

InitClientOff ==
    /\ keyFile = NoFile
    /\ hpFile = NoFile
    /\ trainFile = NoFile
    /\ zipFile = NoFile
    /\ pc = [r \in Runs |-> "off"]
    /\ sk = [r \in Runs |-> NoKey]
    /\ out = [r \in Runs |-> <<>>]
    /\ err = [r \in Runs |-> ""]
    /\ zh = [r \in Runs |-> NoZip]
    /\ hh = [r \in Runs |-> NoHash]
    /\ art_hash = [r \in Runs |-> <<>>]
    /\ payload = [r \in Runs |-> JNull]
    /\ signature = [r \in Runs |-> NoSig]
    /\ files = [r \in Runs |-> NoFiles]
    /\ cpStatus = [r \in Runs |-> -1]
    /\ sent = {}
    /\ overlap = TRUE
    /\ shortReads = FALSE

-----------------------------------------------------------------------------
(* The verifier (the contract of the server that receives the requests):   *)
(* NumVerifiers workers verify submissions concurrently and share the      *)
(* record of the (submitter identifier, nonce) pairs already accepted.     *)
NumVerifiers == 2
VMaxClock == 2
FreshWindow == 1
Verifiers == 1..NumVerifiers

NoSub == [payload |-> <<>>, signature |-> <<>>, artifact |-> <<>>]
Idle ==
    [pc |-> "idle", sub |-> NoSub, parsed |-> Fail, at |-> 0, unseen |-> FALSE, outcome |-> ""]

Key1 == SigningKey(Strip(KeyText1))
Key2 == SigningKey(Strip(KeyText2))

(* The public key bound, out of band, to a submitter identifier. *)
KeyOf(miner) ==
    IF miner = JInt(1) THEN PublicOf(Key1.seed)
    ELSE IF miner = JInt(2) THEN PublicOf(Key2.seed)
    ELSE PublicOf(<<>>)

(* A submission as the client builds it: the three parts of the request. *)
Submission(claim, key, artifact) ==
    [payload |-> WirePayload(claim),
     signature |-> sign_payload(key, claim),
     artifact |-> artifact]

Art1 == <<1>>
Art2 == <<2>>
HonestClaim(ts, n) == MakePayload(HexDigest(Art1), hyper, ts, n)

(* The submissions the verifier may receive: those of the honest client,   *)
(* and one of them with the artifact replaced, signed by another key,      *)
(* with a field altered after signing, from another submitter, with the    *)
(* payload text cut short, with a field missing, with the artifact part    *)
(* missing.                                                                *)
SubmissionSpace ==
    <<Submission(HonestClaim(0, 0), Key1, Art1),
      Submission(HonestClaim(0, 1), Key1, Art1),
      Submission(HonestClaim(VMaxClock, 0), Key1, Art1),
      Submission(HonestClaim(VMaxClock, 1), Key1, Art1),
      [Submission(HonestClaim(0, 0), Key1, Art1) EXCEPT !.artifact = Art2],
      Submission(HonestClaim(0, 0), Key2, Art1),
      [Submission(HonestClaim(0, 0), Key1, Art1) EXCEPT
          !.payload = WirePayload(WithField(HonestClaim(0, 0), S_performance, JFloat(99, 2)))],
      Submission(WithField(HonestClaim(0, 0), S_miner_id, JInt(2)), Key2, Art1),
      [Submission(HonestClaim(0, 0), Key1, Art1) EXCEPT
          !.payload = SubSeq(WirePayload(HonestClaim(0, 0)), 1, 20)],
      Submission(JObj(SubSeq(HonestClaim(0, 0).members, 1, 6)), Key1, Art1),
      [payload |-> WirePayload(HonestClaim(0, 0)),
       signature |-> sign_payload(Key1, HonestClaim(0, 0))]>>

(* The submission has its three parts. *)
Complete(sub) == {"payload", "signature", "artifact"} \subseteq DOMAIN sub

(* The parsed payload part is a claim: a mapping with the seven fields,    *)
(* the timestamp and the nonce integers.                                   *)
WellFormed(p) ==
    /\ p.ok
    /\ p.v.t = "obj"
    /\ \A k \in ClaimKeys : Has(p.v, k)
    /\ Get(p.v, S_timestamp).t = "int"
    /\ Get(p.v, S_nonce).t = "int"

(* (a) the digest recomputed over the received artifact is the claim's. *)
HashOk(claim, artifact) == Get(claim, S_artifact_hash) = JStr(HexDigest(artifact))

(* (b) the signature verifies over the canonical bytes recomputed from the *)
(* received fields, with the key bound to the submitter identifier.        *)
SigOk(claim, sigtext) ==
    Verify(SigUnhex(sigtext), Canon(claim), KeyOf(Get(claim, S_miner_id)))

(* (c) the timestamp is within the freshness window of the clock now. *)
Fresh(claim, now) ==
    LET ts == Get(claim, S_timestamp).n IN
    ts - now <= FreshWindow /\ now - ts <= FreshWindow

PairOf(claim) == <<Get(claim, S_miner_id), Get(claim, S_nonce).n>>

Pairs == {<<m, n>> : m \in {JInt(1), JInt(2)}, n \in {0, 1}}

(* The stateless checks without the check of the timestamp. *)
CheckOutcomeNoWindow(p, sub, now) ==
    IF ~Complete(sub) THEN "REJECTED_incomplete"
    ELSE IF ~WellFormed(p) THEN "REJECTED_malformed"
    ELSE IF ~HashOk(p.v, sub.artifact) THEN "REJECTED_bad_hash"
    ELSE IF ~SigOk(p.v, sub.signature) THEN "REJECTED_bad_signature"
    ELSE ""

(* The stateless checks, in order: the first that fails gives the reason. *)
CheckOutcome(p, sub, now) ==
    IF ~Complete(sub) THEN "REJECTED_incomplete"
    ELSE IF ~WellFormed(p) THEN "REJECTED_malformed"
    ELSE IF ~HashOk(p.v, sub.artifact) THEN "REJECTED_bad_hash"
    ELSE IF ~SigOk(p.v, sub.signature) THEN "REJECTED_bad_signature"
    ELSE IF ~Fresh(p.v, now) THEN "REJECTED_stale"
    ELSE ""

(* A record that forgets: the pair is not added. *)
RecordNothing(s, pair) == s

(* The record after an accepted pair: the pair is added. *)
RecordPair(s, pair) == s \cup {pair}

InitVerifierOff ==
    /\ inbox = <<>>
    /\ vnow = 0
    /\ seen = {}
    /\ vw = [w \in Verifiers |-> [Idle EXCEPT !.pc = "off"]]
    /\ accepted = [p \in Pairs |-> 0]

InitVerifier ==
    /\ inbox = SubmissionSpace
    /\ vnow = 0
    /\ seen = {}
    /\ vw = [w \in Verifiers |-> Idle]
    /\ accepted = [p \in Pairs |-> 0]

(* The verifier's clock advances. *)
Tick ==
    /\ vnow < VMaxClock
    /\ vnow' = vnow + 1
    /\ UNCHANGED <<inbox, seen, vw, accepted>>
    /\ UNCHANGED verifierFrame

(* A worker receives one of the submissions (any of them, any number of    *)
(* times: a request can be sent again).                                    *)
Receive(w) ==
    /\ vw[w].pc = "idle"
    /\ \E i \in DOMAIN inbox :
          vw' = [vw EXCEPT ![w] = [Idle EXCEPT !.pc = "check", !.sub = inbox[i]]]
    /\ UNCHANGED <<inbox, vnow, seen, accepted>>
    /\ UNCHANGED verifierFrame

(* The worker parses the payload part and checks the payload, the digest,  *)
(* the signature, the timestamp; a failure is the outcome.                 *)
Check(w) ==
    /\ vw[w].pc = "check"
    /\ LET p == IF Complete(vw[w].sub) THEN Loads(vw[w].sub.payload) ELSE Fail
           o == CheckOutcome(p, vw[w].sub, vnow)
       IN vw' = [vw EXCEPT ![w].parsed = p,
                           ![w].at = vnow,
                           ![w].outcome = o,
                           ![w].pc = IF o = "" THEN "replay" ELSE "decided"]
    /\ UNCHANGED <<inbox, vnow, seen, accepted>>
    /\ UNCHANGED verifierFrame

(* The atomic insert-if-absent of the pair: absent, it is recorded and the *)
(* submission is ACCEPTED; present, the submission is a replay.            *)
InsertIfAbsent(w) ==
    /\ vw[w].pc = "replay"
    /\ LET pair == PairOf(vw[w].parsed.v) IN
       \/ /\ pair \notin seen
          /\ seen' = RecordPair(seen, pair)
          /\ accepted' = [accepted EXCEPT ![pair] = @ + 1]
          /\ vw' = [vw EXCEPT ![w].unseen = TRUE, ![w].outcome = "ACCEPTED", ![w].pc = "decided"]
       \/ /\ pair \in seen
          /\ vw' = [vw EXCEPT ![w].unseen = FALSE, ![w].outcome = "REJECTED_replay",
                              ![w].pc = "decided"]
          /\ UNCHANGED <<seen, accepted>>
    /\ UNCHANGED <<inbox, vnow>>
    /\ UNCHANGED verifierFrame

(* The response is sent; the worker is free again. *)
Respond(w) ==
    /\ vw[w].pc = "decided"
    /\ vw' = [vw EXCEPT ![w] = Idle]
    /\ UNCHANGED <<inbox, vnow, seen, accepted>>
    /\ UNCHANGED verifierFrame

NextVerifier ==
    \/ Tick
    \/ \E w \in Verifiers : Receive(w)
    \/ \E w \in Verifiers : Check(w)
    \/ \E w \in Verifiers : InsertIfAbsent(w)
    \/ \E w \in Verifiers : Respond(w)

NextCanon == Keep \/ Reorder \/ Alter \/ SignA \/ FlipBit \/ VerifyB

vars == <<clientVars, canonVars, verifierVars>>

Init == InitClient /\ overlap = TRUE /\ shortReads = FALSE /\ InitCanonOff /\ InitVerifierOff

CanonInit == InitClientOff /\ InitCanon /\ InitVerifierOff

SpecCanon == CanonInit /\ [][NextCanon]_vars

VerifierInit == InitClientOff /\ InitCanonOff /\ InitVerifier

SpecVerifier == VerifierInit /\ [][NextVerifier]_vars

(* One step of the script in process r. *)
Step(r) ==
    \/ LoadKey(r)
    \/ OpenHp(r)
    \/ DumpHp(r)
    \/ CpTrain(r)
    \/ OpenZip(r)
    \/ ListDir(r)
    \/ ZipWrite(r)
    \/ ZipClose(r)
    \/ HashOpen(r)
    \/ HashRead(r)
    \/ BuildPayload(r)
    \/ SignPayload(r)
    \/ Assemble(r)
    \/ Post(r)

(* The processes run concurrently. *)
Next == \E r \in Runs : Step(r)

Spec == Init /\ [][Next]_vars

(* The processes run one after the other. *)
InitSeq == InitClient /\ overlap = FALSE /\ shortReads = FALSE /\ InitCanonOff /\ InitVerifierOff

SpecSeq == InitSeq /\ [][Next]_vars

(* sha256_file taken alone: the processes are about to hash a file that    *)
(* nothing writes. The short files are hashed by every process and read in *)
(* chunks of every size; the files of one chunk of 8192 bytes and more are *)
(* hashed by one process and read in full chunks.                          *)
MaxShortLen == 4

HashFiles ==
    {NoFile}
    \cup {[exists |-> TRUE, data |-> [i \in 1..n |-> i % 256]] :
             n \in (0..MaxShortLen) \cup {CHUNK, CHUNK + 1, 2 * CHUNK + 1}}

InitHash ==
    /\ zipFile \in HashFiles
    /\ shortReads \in {b \in BOOLEAN : b => Len(zipFile.data) <= MaxShortLen}
    /\ overlap = TRUE
    /\ keyFile = NoFile
    /\ hpFile = NoFile
    /\ trainFile = NoFile
    /\ pc = [r \in Runs |-> IF r = 1 \/ Len(zipFile.data) <= MaxShortLen
                            THEN "hash_open" ELSE "off"]
    /\ sk = [r \in Runs |-> NoKey]
    /\ out = [r \in Runs |-> <<>>]
    /\ err = [r \in Runs |-> ""]
    /\ zh = [r \in Runs |-> NoZip]
    /\ hh = [r \in Runs |-> NoHash]
    /\ art_hash = [r \in Runs |-> <<>>]
    /\ payload = [r \in Runs |-> JNull]
    /\ signature = [r \in Runs |-> NoSig]
    /\ files = [r \in Runs |-> NoFiles]
    /\ cpStatus = [r \in Runs |-> -1]
    /\ sent = {}
    /\ InitCanonOff
    /\ InitVerifierOff

NextHash == \E r \in Runs : HashOpen(r) \/ HashRead(r)

(* fh.read returns: a call of sha256_file that can step does step. *)
SpecHash == InitHash /\ [][NextHash]_vars /\ WF_vars(NextHash)

-----------------------------------------------------------------------------
(* What the verifier parses out of the payload part of a request. *)
Parsed(req) == Loads(req.payload)

(* The archives a run produces when no other run touches the files: the   *)
(* members in the order of the listing, then the central directory.       *)
AloneData(name) == IF name = "hyperparameters.json" THEN DumpsDefault(hyper) ELSE TRAIN_PY

RECURSIVE AloneMembers(_)
AloneMembers(names) ==
    IF names = <<>> THEN <<>>
    ELSE EntryBytes(Head(names), AloneData(Head(names))) \o AloneMembers(Tail(names))

AloneArchive(names) == AloneMembers(names) \o CDirBytes(names)

AloneArchives ==
    {AloneArchive(<<"hyperparameters.json">>),
     AloneArchive(<<"hyperparameters.json", "train.py">>)}

(* The key file holds a well-formed key: hex text of SEED_BYTES bytes. *)
KeyWellFormed ==
    /\ keyFile.exists
    /\ LET t == Strip(keyFile.data) IN
       /\ Len(t) = 2 * SEED_BYTES
       /\ \A i \in 1..Len(t) : HexVal(t[i]) >= 0

-----------------------------------------------------------------------------
(* C1: in every submission sent, the payload's artifact_hash is the digest *)
(* of the artifact bytes sent in the artifact part (the file did not       *)
(* change between the hash and the read for transmission).                 *)
C1_HashOfSentArtifact ==
    \A req \in sent :
        /\ Parsed(req).ok
        /\ Get(Parsed(req).v, S_artifact_hash) = JStr(HexDigest(req.artifact))

(* C2: no step between sign_payload and the assembly of the request        *)
(* changes the payload or the signature, and of every request, when it is  *)
(* sent, the canonical bytes the verifier re-derives from the parsed       *)
(* payload part are the bytes that were signed.                            *)
C2_CanonRoundTrip ==
    [][/\ \A r \in Runs :
             pc[r] \in {"assemble", "post"} =>
                 /\ payload'[r] = payload[r]
                 /\ signature'[r] = signature[r]
                 /\ signature[r] = sign_payload(sk[r], payload[r])
       /\ \A req \in sent' \ sent :
             LET p == Parsed(req) IN
             /\ p.ok
             /\ Canon(p.v) = SigUnhex(req.signature).over]_vars

(* C2 witness: a request was sent whose payload part is not the canonical  *)
(* text, and whose parsed fields are in another order than the canonical.  *)
C2_Witness ==
    \E req \in sent :
        /\ req.payload # SigUnhex(req.signature).over
        /\ Parsed(req).ok
        /\ Parsed(req).v.members # SortMembers(Parsed(req).v.members)

(* C6: whatever the interleaving of the runs, each request carries what    *)
(* its run would have sent alone: an archive with the full                 *)
(* hyperparameters.json, the hash of that archive, and the signature of    *)
(* the payload with that hash.                                             *)
C6_RunsIndependent ==
    \A req \in sent :
        /\ req.artifact \in AloneArchives
        /\ Parsed(req).ok
        /\ Get(Parsed(req).v, S_artifact_hash) \in {JStr(HexDigest(a)) : a \in AloneArchives}
        /\ Get(Parsed(req).v, S_artifact_hash) = JStr(HexDigest(req.artifact))
        /\ Verify(SigUnhex(req.signature), Canon(Parsed(req).v),
                  PublicOf(SigningKey(Strip(keyFile.data)).seed))

(* C9: no request is sent by a run in which a construction step failed:    *)
(* an exception was raised, or the copy of train.py exited non-zero.       *)
C9_NoSendAfterFailure ==
    \A req \in sent : err[req.run] = "" /\ cpStatus[req.run] = 0

(* C10: when the key is absent or malformed no signature is produced, and  *)
(* the bytes sign_payload signs are never empty.                           *)
C10_SignerRefuses ==
    /\ ~KeyWellFormed =>
          /\ \A r \in Runs : sk[r] = NoKey /\ signature[r] = NoSig
          /\ sent = {}
    /\ \A r \in Runs : signature[r] # NoSig => Len(signature[r].over) > 0

(* C10 witness: the key file holds no well-formed key and a run ended on   *)
(* the error SigningKey raised for it.                                     *)
C10_Witness ==
    /\ ~KeyWellFormed
    /\ \E r \in Runs : pc[r] = "aborted" /\ err[r] = "ValueError"

-----------------------------------------------------------------------------
(* C3: the signature of the canonical bytes of a claim verifies with the   *)
(* matching public key against the same claim, and does not verify when a  *)
(* field of the claim was altered, when the public key is of another key   *)
(* pair, or when a bit of the signature was flipped.                       *)
C3_SignatureRoundTrip ==
    phase = "verified" =>
        /\ (rel = "same" /\ keyB = PublicOf(keyA.seed) /\ sigC.flip = 0) => verdict
        /\ (rel = "altered" \/ keyB # PublicOf(keyA.seed) \/ sigC.flip # 0) => ~verdict

(* C3 witness: the signature of a claim was verified, with the matching    *)
(* public key and no bit flipped, against the claim with its performance   *)
(* altered, and did not verify.                                            *)
C3_Witness ==
    /\ phase = "verified"
    /\ rel = "altered"
    /\ keyB = PublicOf(keyA.seed)
    /\ sigC.flip = 0
    /\ ~verdict
    /\ Get(claimA, S_performance) # Get(claimB, S_performance)

(* C7: the canonical bytes of a claim do not depend on the key insertion   *)
(* order of the payload mapping nor of the nested hyperparameters mapping. *)
C7_CanonDeterministic ==
    (phase = "verified" /\ rel \in {"same", "reordered"}) => msgA = msgB

(* C7 witness: a claim and a reordering of it, nested mapping included,    *)
(* were both canonicalized.                                                *)
C7_Witness ==
    /\ phase = "verified"
    /\ rel = "reordered"
    /\ claimA # claimB
    /\ Get(claimA, S_hyperparameters) # Get(claimB, S_hyperparameters)
    /\ msgA = msgB

(* C8, as stated: identical field values give identical canonical bytes,   *)
(* and any difference, key ordering included, gives different bytes.       *)
C8_AnyDifferenceChangesBytes ==
    phase = "verified" =>
        /\ claimA = claimB => msgA = msgB
        /\ claimA # claimB => msgA # msgB

(* C8, amended: the canonical bytes are equal exactly when the claims have *)
(* the same field values, whatever the key order of their mappings.        *)
C8_CanonInjective ==
    phase = "verified" => (msgA = msgB <=> SameValue(claimA, claimB))

(* C8 witness: two claims that differ in the text of one string value, in  *)
(* a way that only the escaping keeps apart, were canonicalized.           *)
C8_Witness ==
    /\ phase = "verified"
    /\ rel = "altered"
    /\ msgA # msgB
    /\ \E x \in {claimA, claimB} :
          Get(x, S_hyperparameters) = JObj(<<Member(S_a, JStr(S_tricky))>>)
    /\ \E x \in {claimA, claimB} :
          Get(x, S_hyperparameters) = JObj(<<Member(S_a, JStr(S_1)), Member(S_b, JStr(S_2))>>)

-----------------------------------------------------------------------------
(* C4: every verification ends in exactly one outcome, ACCEPTED or         *)
(* REJECTED with a reason, and it is ACCEPTED exactly when it has its      *)
(* three parts, the payload part is a claim, the recomputed                *)
(* digest is the claim's, the signature verifies, the timestamp was in the *)
(* window and the pair was not recorded before; the record holds exactly   *)
(* the pairs of accepted submissions (nothing is accepted in part).        *)
Outcomes ==
    {"ACCEPTED", "REJECTED_incomplete", "REJECTED_malformed", "REJECTED_bad_hash",
     "REJECTED_bad_signature", "REJECTED_stale", "REJECTED_replay"}

C4_AcceptedIffAllChecks ==
    /\ \A w \in Verifiers :
          vw[w].pc = "decided" =>
              /\ vw[w].outcome \in Outcomes
              /\ vw[w].outcome = "ACCEPTED" <=>
                    LET sub == vw[w].sub
                        p == Parsed(sub)
                    IN /\ Complete(sub)
                       /\ WellFormed(p)
                       /\ HashOk(p.v, sub.artifact)
                       /\ SigOk(p.v, sub.signature)
                       /\ Fresh(p.v, vw[w].at)
                       /\ vw[w].unseen
    /\ seen = {p \in Pairs : accepted[p] > 0}

(* C4 witnesses: a submission was accepted while another was rejected as   *)
(* stale although its digest and signature are good.                       *)
C4_Witness ==
    \E w1, w2 \in Verifiers :
        /\ vw[w1].pc = "decided" /\ vw[w1].outcome = "ACCEPTED"
        /\ vw[w2].pc = "decided" /\ vw[w2].outcome = "REJECTED_stale"
        /\ HashOk(vw[w2].parsed.v, vw[w2].sub.artifact)
        /\ SigOk(vw[w2].parsed.v, vw[w2].sub.signature)

(* C5: whatever the interleaving of the verifications, at most one         *)
(* submission with a given (submitter identifier, nonce) pair is ACCEPTED, *)
(* and a submission that passes the other checks with a pair accepted      *)
(* before is REJECTED as a replay.                                         *)
C5_ReplayRejected ==
    /\ \A p \in Pairs : accepted[p] <= 1
    /\ \A w \in Verifiers :
          (vw[w].pc = "decided" /\ vw[w].outcome \in {"ACCEPTED", "REJECTED_replay"}) =>
              (vw[w].outcome = "REJECTED_replay" <=> ~vw[w].unseen)

(* C5 witness: two workers verified, at the same time, the same            *)
(* submission; one accepted it, the other rejected it as a replay.         *)
C5_Witness ==
    \E w1, w2 \in Verifiers :
        /\ vw[w1].pc = "decided" /\ vw[w1].outcome = "ACCEPTED"
        /\ vw[w2].pc = "decided" /\ vw[w2].outcome = "REJECTED_replay"
        /\ vw[w1].sub = vw[w2].sub

-----------------------------------------------------------------------------
(* The requests run r has sent. *)
SentBy(r) == {req \in sent : req.run = r}

(* The key file holds key material of an invalid length or format. *)
KeyMalformed == keyFile.exists /\ ~KeyWellFormed

(* C11: when the key material has an invalid length or format every run    *)
(* stops with the error SigningKey raises, at the load of the key, before  *)
(* any other step; a run that stopped with an error stays stopped and      *)
(* sends no request.  (The hyperparameters are the literal of line 44,     *)
(* which json.dump serializes.)                                            *)
C11_MalformedInputFatal ==
    /\ [](KeyMalformed =>
            \A r \in Runs :
                /\ pc[r] \in {"load_key", "aborted"}
                /\ pc[r] = "aborted" => err[r] = "ValueError"
                /\ SentBy(r) = {})
    /\ [][\A r \in Runs :
             pc[r] = "aborted" =>
                 /\ pc'[r] = "aborted"
                 /\ err'[r] = err[r]
                 /\ {req \in sent' : req.run = r} = SentBy(r)]_vars

(* C11 witness: the key text has an odd number of hex characters and a run *)
(* has stopped on it.                                                      *)
C11_Witness ==
    /\ KeyMalformed
    /\ Len(Strip(keyFile.data)) % 2 = 1
    /\ \E r \in Runs : pc[r] = "aborted" /\ err[r] = "ValueError" /\ SentBy(r) = {}

-----------------------------------------------------------------------------
(* The parts a request carries. *)
Parts(req) == DOMAIN req \ {"run"}

(* C12: every request the client issues carries the three parts payload,   *)
(* signature and artifact, and the step that sends for a run adds exactly  *)
(* that one request, with the payload and signature parts assembled for    *)
(* it; no other step sends.                                                *)
C12_ThreePartsOneRequest ==
    /\ [](\A req \in sent : Parts(req) = {"payload", "signature", "artifact"})
    /\ [][\A r \in Runs :
             IF pc[r] = "post" /\ pc'[r] = "done"
             THEN \E req \in sent' :
                     /\ sent' = sent \cup {req}
                     /\ req \notin sent
                     /\ req.run = r
                     /\ Parts(req) = {"payload", "signature", "artifact"}
                     /\ req.payload = files[r].payload
                     /\ req.signature = files[r].signature
             ELSE {req \in sent' : req.run = r} = SentBy(r)]_vars

(* C12 witness: two runs have each sent their request, and each request    *)
(* has a payload text, a signature and archive bytes.                      *)
C12_Witness ==
    /\ \A r \in Runs : pc[r] = "done" /\ Cardinality(SentBy(r)) = 1
    /\ \A req \in sent :
          /\ Parts(req) = {"payload", "signature", "artifact"}
          /\ req.payload # <<>>
          /\ req.signature # NoSig
          /\ req.artifact # <<>>

-----------------------------------------------------------------------------
(* The text x occurs in the text s as a contiguous run. *)
Occurs(x, s) ==
    /\ x # <<>>
    /\ \E i \in 1..(Len(s) - Len(x) + 1) : SubSeq(s, i, i + Len(x) - 1) = x

(* The private key material: the text of the key file, the seed decoded    *)
(* from it and its hex text.                                               *)
KeyMaterial ==
    {Strip(keyFile.data)}
    \cup UNION {{sk[r].seed, HexEncode(sk[r].seed)} : r \in Runs}

(* A text or a byte string holds none of the key material. *)
Clean(s) == \A x \in KeyMaterial : ~Occurs(x, s)

(* The errors a run can end with: each names its type, none is built from  *)
(* the key.                                                                *)
ErrorNames == {"", "FileNotFoundError", "ValueError", "OSError"}

(* C13: at every step, what a run prints is the public key (a term the    *)
(* seed cannot be read from) or the response, never the signing key; the   *)
(* payload part assembled, the payload part, the signed bytes and the      *)
(* artifact of a request sent, and a file written hold none of the key     *)
(* material; the signature names the public key only; the error of a run   *)
(* that fails is one of the fixed errors.                                  *)
C13_KeyNeverLeaves ==
    [][/\ \A r \in Runs :
             /\ out'[r] # out[r] =>
                    LET e == out'[r][Len(out'[r])] IN
                    /\ e.pub # sk'[r]
                    /\ e.pub \in {PublicOf(sk'[r].seed), PublicOf(<<>>)}
                    /\ e.what = "public key:" => e.pub = PublicOf(sk'[r].seed)
             /\ err'[r] \in ErrorNames
             /\ files'[r] # files[r] => Clean(files'[r].payload)
       /\ \A req \in sent' \ sent :
             /\ Clean(req.payload)
             /\ Clean(req.artifact)
             /\ Clean(SigUnhex(req.signature).over)
             /\ SigUnhex(req.signature).by = PublicOf(sk[req.run].seed)
       /\ hpFile' # hpFile => Clean(hpFile'.data)
       /\ trainFile' # trainFile => Clean(trainFile'.data)
       /\ zipFile' # zipFile => Clean(zipFile'.data)
       /\ keyFile' = keyFile]_vars

(* C13 witness: a run with a key printed, signed and sent, and a run ended *)
(* with an error.                                                          *)
C13_Witness ==
    /\ \E r \in Runs :
          /\ sk[r].ok
          /\ pc[r] = "done"
          /\ Len(out[r]) = 2
          /\ SentBy(r) # {}
    /\ \E r \in Runs : pc[r] = "aborted" /\ err[r] = "OSError"

-----------------------------------------------------------------------------
(* C14: no two claims sent by the runs carry the same nonce. *)
C14_NonceUnique ==
    \A q1, q2 \in sent :
        q1.run # q2.run => Get(Parsed(q1).v, S_nonce) # Get(Parsed(q2).v, S_nonce)

-----------------------------------------------------------------------------
(* C15: a run goes through hash, build claim, sign, assemble, send in that *)
(* order, each step on the result of the one before: the claim is built    *)
(* after the hash and carries it, the signature is of that claim, the      *)
(* request assembled carries that claim and that signature, the send       *)
(* follows the assembly, adds one request and ends the run; a run that     *)
(* has ended sends nothing more.                                           *)
C15_PipelineOrder ==
    [][\A r \in Runs :
          /\ (pc'[r] = "build_payload" /\ pc[r] # "build_payload") =>
                 /\ pc[r] = "hash_read"
                 /\ art_hash'[r] = HexDigest(hh[r].fed)
          /\ (pc'[r] = "sign" /\ pc[r] # "sign") =>
                 /\ pc[r] = "build_payload"
                 /\ Get(payload'[r], S_artifact_hash) = JStr(art_hash[r])
          /\ (pc'[r] = "assemble" /\ pc[r] # "assemble") =>
                 /\ pc[r] = "sign"
                 /\ signature'[r] = sign_payload(sk[r], payload[r])
          /\ (pc'[r] = "post" /\ pc[r] # "post") =>
                 /\ pc[r] = "assemble"
                 /\ files'[r].payload = WirePayload(payload[r])
                 /\ files'[r].signature = signature[r]
          /\ {req \in sent' : req.run = r} # SentBy(r) =>
                 /\ pc[r] = "post"
                 /\ pc'[r] = "done"
                 /\ SentBy(r) = {}
                 /\ Cardinality({req \in sent' : req.run = r}) = 1
          /\ pc[r] = "done" =>
                 /\ pc'[r] = "done"
                 /\ {req \in sent' : req.run = r} = SentBy(r)]_vars

(* C15 witness: a run has gone through the whole pipeline and sent its one *)
(* request, whose claim carries the hash the run computed.                 *)
C15_Witness ==
    \E r \in Runs :
        /\ pc[r] = "done"
        /\ art_hash[r] # <<>>
        /\ \E req \in SentBy(r) :
              /\ SentBy(r) = {req}
              /\ Get(Parsed(req).v, S_artifact_hash) = JStr(art_hash[r])
              /\ req.signature = sign_payload(sk[r], payload[r])

-----------------------------------------------------------------------------
(* C16: sha256_file returns the digest of the whole file however the       *)
(* content is split into chunks: every read before the end feeds the next  *)
(* bytes of the file and moves forward, so the loop ends; the digest       *)
(* returned is the digest of all the bytes of the file; a read or an open  *)
(* that fails raises OSError and returns no digest; every call ends.       *)
Hashing(r) == pc[r] \in {"hash_open", "hash_read"}

C16_DigestOfWholeFile ==
    /\ [][\A r \in Runs :
             /\ (pc[r] = "hash_read" /\ pc'[r] = "hash_read" /\ hh'[r].off # hh[r].off) =>
                    /\ hh'[r].off > hh[r].off
                    /\ hh'[r].off <= Len(zipFile.data)
                    /\ hh'[r].fed = SubSeq(zipFile.data, 1, hh'[r].off)
             /\ (Hashing(r) /\ pc'[r] = "build_payload") =>
                    /\ hh[r].fed = zipFile.data
                    /\ art_hash'[r] = HexDigest(hh[r].fed)
             /\ (Hashing(r) /\ pc'[r] = "aborted") => err'[r] = "OSError"
             /\ pc'[r] # "build_payload" => art_hash'[r] = <<>>]_vars
    /\ <>(\A r \in Runs : ~Hashing(r))

(* C16 witness: a file longer than two chunks has been hashed whole.       *)
C16_Witness ==
    /\ Len(zipFile.data) > 2 * CHUNK
    /\ \E r \in Runs :
          /\ pc[r] = "build_payload"
          /\ hh[r].fed = zipFile.data
          /\ Len(art_hash[r]) = 2 * Len(zipFile.data)

-----------------------------------------------------------------------------
(* C17: the archive a call of build_repro_package has written holds        *)
(* exactly hyperparameters.json, with the hyperparameters of that call,    *)
(* and train.py, copied by that call.                                      *)
Packaged(r) == pc[r] \in {"hash_open", "hash_read", "build_payload", "sign",
                          "assemble", "post"}

C17_ArchiveFresh ==
    \A r \in Runs :
        (Packaged(r) /\ \A q \in Runs \ {r} : Finished(q) \/ pc[q] = "load_key") =>
            /\ zipFile.data = AloneArchive(<<"hyperparameters.json", "train.py">>)
            /\ cpStatus[r] = 0

-----------------------------------------------------------------------------
(* C18: a process loads its key pair once, in its first step, and no later *)
(* step changes it or the key file: the public key printed at the start    *)
(* stays the public half of sk, and every signature the process makes and  *)
(* every request it sends is signed by that key.                           *)
Printed(r) == {out[r][i].pub : i \in {i \in DOMAIN out[r] : out[r][i].what = "public key:"}}

C18_KeyLoadedOnce ==
    [][/\ keyFile' = keyFile
       /\ \A r \in Runs :
             /\ sk'[r] # sk[r] => pc[r] = "load_key" /\ sk[r] = NoKey
             /\ pc[r] # "load_key" =>
                    /\ {req \in sent' : req.run = r} # {} => sk[r].ok
                    /\ sk[r].ok => Printed(r) = {PublicOf(sk[r].seed)}
                    /\ {out'[r][i].pub : i \in {i \in DOMAIN out'[r] :
                               out'[r][i].what = "public key:"}} = Printed(r)
             /\ signature'[r] # signature[r] =>
                    SigUnhex(signature'[r]).by \in Printed(r)
       /\ \A req \in sent' \ sent :
             SigUnhex(req.signature).by \in Printed(req.run)]_vars

(* C18 witness: every process has printed its public key, signed and sent  *)
(* a request signed by that key.                                           *)
C18_Witness ==
    \A r \in Runs :
        /\ pc[r] = "done"
        /\ sk[r].ok
        /\ Printed(r) = {PublicOf(sk[r].seed)}
        /\ \E req \in SentBy(r) : SigUnhex(req.signature).by = PublicOf(sk[r].seed)

====
